---------------------------- MODULE Spec2Model ----------------------------
(***************************************************************************)
(* A model of clip's plot pipeline: plot_eval (plot_prepare, then          *)
(* plot_draw), plot_get_clip, and the bars geometry (bars_configure,       *)
(* bars_autorange, bars_draw_horizontal / bars_draw_vertical).             *)
(*                                                                         *)
(* Numbers of type double are modelled as exact extended rationals         *)
(* <<n, d>> with d >= 0: d > 0 is the rational n/d in lowest terms,        *)
(* <<1, 0>> is +inf, <<-1, 0>> is -inf and <<0, 0>> is NaN.  Rounding and  *)
(* the sign of zero are not modelled.                                      *)
(***************************************************************************)
EXTENDS Integers, Sequences, FiniteSets, TLC

VARIABLES
  expr,      \* the plot expression: a sequence of [key, val] entries
  layer,     \* the layer of the context: dpi, rem, font size, width, height
  phase,     \* where plot_eval is: "prepare", "draw", "done", "failed"
  pos,       \* the entry of expr the walker of the running phase is at
  plot,      \* PlotConfig
  out,       \* the commands handed to the rendering sink, in order
  rc,        \* the ReturnCode of plot_eval once it returned
  calls,     \* history: the handlers run so far, in order
  prepared,  \* history: PlotConfig as plot_prepare left it
  clip,      \* the Rectangle the last plot_get_clip call returned, if any
  trace      \* what the last bars draw call did, index by index

vars == <<expr, layer, phase, pos, plot, out, rc, calls, prepared, clip, trace>>

(***************************************************************************)
(* Bounds of the model.                                                    *)
(***************************************************************************)
\* the longest plot expression, in keys
MaxKeys == 3
\* the longest data buffer of a bars element
MaxData == 3
\* the deepest layout stack
MaxStack == 2

(***************************************************************************)
(* double arithmetic                                                       *)
(***************************************************************************)
None == <<>>
Some(v) == <<v>>

Abs(n) == IF n < 0 THEN -n ELSE n
Sign(n) == IF n < 0 THEN -1 ELSE IF n > 0 THEN 1 ELSE 0

RECURSIVE Gcd(_, _)
Gcd(a, b) == IF b = 0 THEN a ELSE Gcd(b, a % b)

RNorm(n, d) ==
  IF d = 0 THEN <<Sign(n), 0>>
  ELSE LET s == IF d < 0 THEN -1 ELSE 1
           g == Gcd(Abs(n), Abs(d))
       IN  <<(s * n) \div g, (s * d) \div g>>

R(n) == <<n, 1>>
RNaN == <<0, 0>>
IsNaN(x) == x = RNaN
IsFinite(x) == x[2] > 0

RNeg(x) == <<-x[1], x[2]>>
RAdd(x, y) ==
  IF x[2] = 0 /\ y[2] = 0
  THEN (IF x[1] = y[1] THEN x ELSE RNaN)
  ELSE RNorm(x[1] * y[2] + y[1] * x[2], x[2] * y[2])
RSub(x, y) == RAdd(x, RNeg(y))
RMul(x, y) == RNorm(x[1] * y[1], x[2] * y[2])
RDiv(x, y) == RNorm(x[1] * y[2], x[2] * y[1])
RHalf(x) == RMul(x, <<1, 2>>)

RLt(x, y) ==
  IF IsNaN(x) \/ IsNaN(y) THEN FALSE
  ELSE IF x[2] = 0 /\ y[2] = 0 THEN x[1] < y[1]
  ELSE IF x[2] = 0 THEN x[1] < 0
  ELSE IF y[2] = 0 THEN y[1] > 0
  ELSE x[1] * y[2] < y[1] * x[2]
RLe(x, y) == ~IsNaN(x) /\ ~IsNaN(y) /\ ~RLt(y, x)

\* std::clamp(v, lo, hi)
clamp(v, lo, hi) == IF RLt(v, lo) THEN lo ELSE IF RLt(hi, v) THEN hi ELSE v

(***************************************************************************)
(* Measures and the layer                                                  *)
(***************************************************************************)
Measure(u, v) == [unit |-> u, value |-> v]
MeasureZero == Measure("unit", R(0))

\* px = pt * dpi / 72
unit_from_pt(pt, dpi) == Measure("unit", RDiv(RMul(pt, R(dpi)), R(72)))

\* convert_unit_typographic(dpi, rem, &m): pt and rem become device units
convert_unit_typographic(dpi, rem, m) ==
  CASE m.unit = "pt" -> unit_from_pt(m.value, dpi)
    [] m.unit = "rem" -> Measure("unit", RMul(m.value, rem))
    [] OTHER -> Measure("unit", m.value)

\* expr_to_size(expr, layer, &number): a length argument resolved to pixels
expr_to_size(m, l) == convert_unit_typographic(l.dpi, l.font_size, m).value

\* measure_or(m, dflt)
measure_or(m, dflt) == IF m.value = R(0) THEN dflt ELSE m.value
from_em(em, font_size) == RMul(em, font_size)

layer_get_dpi(l) == l.dpi
layer_get_rem(l) == l.rem

Rectangle(x, y, w, h) == [x |-> x, y |-> y, w |-> w, h |-> h]

\* layout_margin_box(parent, top, right, bottom, left)
layout_margin_box(parent, top, right, bottom, left) ==
  Rectangle(RAdd(parent.x, left),
            RAdd(parent.y, top),
            RSub(parent.w, RAdd(left, right)),
            RSub(parent.h, RAdd(top, bottom)))

(***************************************************************************)
(* PlotConfig and plot_get_clip                                            *)
(***************************************************************************)
ScaleConfigInit ==
  [kind |-> "linear", min |-> None, max |-> None,
   min_auto |-> None, max_auto |-> None, padding |-> R(0)]

PlotConfigInit ==
  [scale_x |-> ScaleConfigInit,
   scale_y |-> ScaleConfigInit,
   margins |-> <<MeasureZero, MeasureZero, MeasureZero, MeasureZero>>,
   layout_stack |-> <<>>]

\* the else branch of a plot_get_clip that answers with the bottom of the stack
plot_get_clip_pushed_front(p) == p.layout_stack[1]
\* plot_get_clip, layout stack not empty: layout_stack.back()
plot_get_clip_pushed(p) == p.layout_stack[Len(p.layout_stack)]

\* plot_get_clip, layout stack empty: the layer inset by the resolved margins
plot_get_clip_margins(p, l) ==
  LET margins == [i \in 1..4 |->
                    convert_unit_typographic(l.dpi, layer_get_rem(l), p.margins[i])]
  IN  layout_margin_box(Rectangle(R(0), R(0), l.width, l.height),
                        margins[1].value, margins[2].value,
                        margins[3].value, margins[4].value)

plot_get_clip(p, l) ==
  IF p.layout_stack = <<>>
  THEN plot_get_clip_margins(p, l)
  ELSE plot_get_clip_pushed(p)

(***************************************************************************)
(* Scale engine.  Its code (scale.cc) is not among the sources; it is      *)
(* modelled from the specification, section 4.2, for the linear kind over  *)
(* numeric buffers, where translation never fails.                         *)
(***************************************************************************)
RMin2(a, b) == IF RLt(b, a) THEN b ELSE a
RMax2(a, b) == IF RLt(a, b) THEN b ELSE a

\* scale_fit(&scale, value): grow the observed domain to cover one value
scale_fit1(s, v) ==
  [s EXCEPT !.min_auto = IF s.min_auto = None THEN Some(v)
                         ELSE Some(RMin2(s.min_auto[1], v)),
            !.max_auto = IF s.max_auto = None THEN Some(v)
                         ELSE Some(RMax2(s.max_auto[1], v))]

\* scale_fit(&scale, buffer): every value of the buffer in turn; an empty
\* buffer leaves the scale alone
RECURSIVE scale_fit(_, _)
scale_fit(s, buf) ==
  IF buf = <<>> THEN s ELSE scale_fit(scale_fit1(s, Head(buf)), Tail(buf))

\* the effective bounds: the explicit limit when set, else the observed one
scale_min_eff(s) ==
  IF s.min # None THEN s.min[1]
  ELSE IF s.min_auto # None THEN s.min_auto[1] ELSE R(0)
scale_max_eff(s) ==
  IF s.max # None THEN s.max[1]
  ELSE IF s.max_auto # None THEN s.max_auto[1] ELSE R(0)

\* the padded domain, padding * (max - min) on both ends
scale_min(s) ==
  RSub(scale_min_eff(s), RMul(s.padding, RSub(scale_max_eff(s), scale_min_eff(s))))
scale_max(s) ==
  RAdd(scale_max_eff(s), RMul(s.padding, RSub(scale_max_eff(s), scale_min_eff(s))))

\* scale_translate(scale, v): the fraction of the axis span, not clamped
scale_translate(s, v) ==
  RDiv(RSub(v, scale_min(s)), RSub(scale_max(s), scale_min(s)))

\* scale_translatev(scale, buffer, &out)
scale_translatev(s, buf) == [i \in 1..Len(buf) |-> scale_translate(s, buf[i])]

(***************************************************************************)
(* The scale configuration keys, as plot_prepare binds them to the plot's  *)
(* scales and bars_configure to the element's copies.                      *)
(***************************************************************************)
ScaleKeysX == {"limit-x", "limit-x-min", "limit-x-max", "scale-x", "scale-x-padding"}
ScaleKeysY == {"limit-y", "limit-y-min", "limit-y-max", "scale-y", "scale-y-padding"}
ScaleKeys == ScaleKeysX \cup ScaleKeysY

\* one scale key applied to the ScaleConfig it is bound to
scale_key_apply(s, key, val) ==
  CASE key \in {"limit-x", "limit-y"} ->
         [s EXCEPT !.min = Some(val.lo), !.max = Some(val.hi)]
    [] key \in {"limit-x-min", "limit-y-min"} -> [s EXCEPT !.min = Some(val.v)]
    [] key \in {"limit-x-max", "limit-y-max"} -> [s EXCEPT !.max = Some(val.v)]
    [] key \in {"scale-x", "scale-y"} -> [s EXCEPT !.kind = val.kind]
    [] key \in {"scale-x-padding", "scale-y-padding"} -> [s EXCEPT !.padding = val.v]

\* a scale key applied to a pair of scales (a PlotConfig or a PlotBarsConfig)
scale_keys_bind(c, e) ==
  IF e.key \in ScaleKeysX
  THEN [c EXCEPT !.scale_x = scale_key_apply(c.scale_x, e.key, e.val)]
  ELSE [c EXCEPT !.scale_y = scale_key_apply(c.scale_y, e.key, e.val)]

RECURSIVE scale_keys_walk(_, _)
scale_keys_walk(c, es) ==
  IF es = <<>> THEN c ELSE scale_keys_walk(scale_keys_bind(c, Head(es)), Tail(es))

(***************************************************************************)
(* bars                                                                    *)
(***************************************************************************)
kDefaultBarSizePT == 10
\* kDefaultLabelPaddingHorizEM = kDefaultLabelPaddingVertEM = 0.6
kDefaultLabelPaddingEM == <<3, 5>>

databuf_len(buf) == Len(buf)

\* bars_configure, the defaults and the key walk: the PlotBarsConfig bound
\* from the element's keys (val), before the length checks
bars_bind(p, l, val) ==
  scale_keys_walk(
    [direction |-> val.direction,
     x |-> val.x, xoffset |-> val.xoffset,
     y |-> val.y, yoffset |-> val.yoffset,
     scale_x |-> p.scale_x, scale_y |-> p.scale_y,
     size |-> expr_to_size(val.width, l),
     sizes |-> val.widths,
     offset |-> expr_to_size(val.offset, l),
     offsets |-> val.offsets,
     labels |-> val.labels,
     label_padding |-> val.label_padding,
     label_font_size |-> l.font_size],
    val.scale)

\* a bars_configure that does not check data-y-low
bars_check_no_ylow(c) ==
  IF databuf_len(c.x) # databuf_len(c.y) THEN "ERROR"
  ELSE IF databuf_len(c.xoffset) # 0 /\ databuf_len(c.x) # databuf_len(c.xoffset)
  THEN "ERROR"
  ELSE "OK"
\* bars_configure, "check configuraton"
bars_check(c) ==
  IF databuf_len(c.x) # databuf_len(c.y) THEN "ERROR"
  ELSE IF databuf_len(c.xoffset) # 0 /\ databuf_len(c.x) # databuf_len(c.xoffset)
  THEN "ERROR"
  ELSE IF databuf_len(c.yoffset) # 0 /\ databuf_len(c.y) # databuf_len(c.yoffset)
  THEN "ERROR"
  ELSE "OK"

\* a bars_configure that seeds the scales from a fresh ScaleConfig
bars_configure_default_scales(p, l, val) ==
  LET c == bars_bind(PlotConfigInit, l, val) IN [rc |-> bars_check(c), conf |-> c]
bars_configure(p, l, val) ==
  LET c == bars_bind(p, l, val) IN [rc |-> bars_check(c), conf |-> c]

\* bars_autorange: the plot's scales fitted to the element's four buffers
bars_autorange(p, l, val) ==
  LET r == bars_configure(p, l, val)
      c == r.conf
  IN  IF r.rc # "OK" THEN [rc |-> r.rc, plot |-> p, cmds |-> <<>>]
      ELSE [rc |-> "OK",
            plot |-> [p EXCEPT
                        !.scale_x = scale_fit(scale_fit(p.scale_x, c.x), c.xoffset),
                        !.scale_y = scale_fit(scale_fit(p.scale_y, c.y), c.yoffset)],
            cmds |-> <<>>]

(***************************************************************************)
(* bars draw.  Buffers are indexed from 0 as in the code.  A read past the *)
(* end of a vector is undefined behaviour: it yields the value g.value, or *)
(* ends the program when g.crash.  Every read is recorded as               *)
(* <<buffer, index, length>>.                                              *)
(***************************************************************************)
At(buf, i, g) == IF i < Len(buf) THEN buf[i + 1] ELSE g.value
Rd(name, buf, i) == <<name, i, Len(buf)>>
OutOfRange(rd) == rd[2] >= rd[3]

Min(S) == CHOOSE m \in S : \A k \in S : m <= k

draw_path(ops) == [cmd |-> "draw_path", path |-> ops]
draw_text(text, p, ax, ay) ==
  [cmd |-> "draw_text", text |-> text, p |-> p, ax |-> ax, ay |-> ay]

\* a thickness that prefers the single width to the widths buffer
bars_size_single_first(config, l, i, g) ==
  IF config.size # R(0) THEN config.size
  ELSE IF config.sizes # <<>> THEN At(config.sizes, i % Len(config.sizes), g)
  ELSE unit_from_pt(R(kDefaultBarSizePT), layer_get_dpi(l)).value
\* the thickness of bar i
bars_size(config, l, i, g) ==
  IF config.sizes # <<>>
  THEN At(config.sizes, i % Len(config.sizes), g)
  ELSE IF config.size # R(0)
  THEN config.size
  ELSE unit_from_pt(R(kDefaultBarSizePT), layer_get_dpi(l)).value

\* an offset that indexes the offsets buffer by i, without the modulo
bars_offset_no_modulo(config, i, g) ==
  IF config.offsets = <<>> THEN config.offset ELSE At(config.offsets, i, g)
\* the offset of bar i, and of label i
bars_offset(config, i, g) ==
  IF config.offsets = <<>>
  THEN config.offset
  ELSE At(config.offsets, i % Len(config.offsets), g)

\* the reads of the sizes and offsets buffers that bar or label i makes
bars_override_reads(config, i, withSize) ==
  (IF withSize /\ config.sizes # <<>>
   THEN {Rd("sizes", config.sizes, i % Len(config.sizes))} ELSE {})
  \cup
  (IF config.offsets # <<>>
   THEN {Rd("offsets", config.offsets, i % Len(config.offsets))} ELSE {})

\* The two loops of a bars draw call, run to their end or to the first step
\* that stops them: a read past the end that ends the program, or the label
\* (counted from 1; 0 for none) whose draw_text reports an error.
bars_step_crashes(st, g) == g.crash /\ \E rd \in st.reads : OutOfRange(rd)
bars_step_fails(st, fail) == st.kind = "label" /\ st.i + 1 = fail

\* label loops that go on after draw_text reported an error
bars_stop_ignoring_draw_text(steps, fail, g) ==
  Min({k \in 1..Len(steps) : bars_step_crashes(steps[k], g)}
      \cup {Len(steps) + 1})
bars_stop(steps, fail, g) ==
  Min({k \in 1..Len(steps) :
         bars_step_crashes(steps[k], g) \/ bars_step_fails(steps[k], fail)}
      \cup {Len(steps) + 1})

bars_ran(steps, stop, g) ==
  [rc |-> IF stop = Len(steps) + 1 THEN "OK"
          ELSE IF bars_step_crashes(steps[stop], g) THEN "CRASH" ELSE "ERROR",
   cmds |-> [k \in 1..(stop - 1) |-> steps[k].cmd],
   steps |-> [k \in 1..(IF stop = Len(steps) + 1 THEN Len(steps) ELSE stop) |->
                steps[k]]]

bars_run(steps, fail, g) == bars_ran(steps, bars_stop(steps, fail, g), g)

bars_drawn(direction, c, config, n, fail, r) ==
  [rc |-> r.rc, cmds |-> r.cmds, clip |-> c,
   trace |-> [direction |-> direction, n |-> n, steps |-> r.steps,
              conf |-> config, fail |-> fail]]

bars_step(kind, i, size, offset, reads, cmd) ==
  [kind |-> kind, i |-> i, size |-> size, offset |-> offset,
   reads |-> reads, cmd |-> cmd]

\* the label padding: label-padding when set, else 0.6em of the label font
bars_label_padding(config) ==
  measure_or(config.label_padding,
             from_em(kDefaultLabelPaddingEM, config.label_font_size))

\* the Path of one horizontal bar
bars_path_horizontal(sx1, sx2, sy, offset, size) ==
  draw_path(<< <<"M", sx1, RSub(RAdd(sy, RNeg(offset)), RHalf(size))>>,
               <<"L", sx2, RSub(RAdd(sy, RNeg(offset)), RHalf(size))>>,
               <<"L", sx2, RAdd(RAdd(sy, RNeg(offset)), RHalf(size))>>,
               <<"L", sx1, RAdd(RAdd(sy, RNeg(offset)), RHalf(size))>>,
               <<"Z">> >>)

\* bars_draw_horizontal, "draw bars", bar i
bars_bar_horizontal(c, xs, xoffsets, ys, x0, l, config, i, g, size, offset) ==
  bars_step("bar", i, size, offset,
    {Rd("ys", ys, i), Rd("xs", xs, i)}
      \cup (IF xoffsets = <<>> THEN {} ELSE {Rd("xoffsets", xoffsets, i)})
      \cup bars_override_reads(config, i, TRUE),
    bars_path_horizontal(
      RAdd(c.x, RMul(IF xoffsets = <<>> THEN x0 ELSE At(xoffsets, i, g), c.w)),
      RAdd(c.x, RMul(At(xs, i, g), c.w)),
      RAdd(c.y, RMul(At(ys, i, g), c.h)),
      offset, size))

\* bars_draw_horizontal, "draw labels", label i
bars_label_horizontal(c, xs, ys, config, i, g, offset) ==
  bars_step("label", i, R(0), offset,
    {Rd("labels", config.labels, i), Rd("xs", xs, i), Rd("ys", ys, i)}
      \cup bars_override_reads(config, i, FALSE),
    draw_text(config.labels[i + 1],
      <<RAdd(RAdd(c.x, RMul(At(xs, i, g), c.w)), bars_label_padding(config)),
        RAdd(RAdd(c.y, RNeg(offset)), RMul(At(ys, i, g), c.h))>>,
      "LEFT", "CENTER"))

bars_loops_horizontal(c, xs, xoffsets, ys, x0, l, config, fail, g) ==
  bars_drawn("horizontal", c, config, Len(xs), fail,
    bars_run([k \in 1..(Len(xs) + Len(config.labels)) |->
                IF k <= Len(xs)
                THEN bars_bar_horizontal(c, xs, xoffsets, ys, x0, l, config,
                       k - 1, g, bars_size(config, l, k - 1, g),
                       bars_offset(config, k - 1, g))
                ELSE bars_label_horizontal(c, xs, ys, config,
                       k - Len(xs) - 1, g,
                       bars_offset(config, k - Len(xs) - 1, g))],
             fail, g))

bars_draw_horizontal(p, l, config, fail, g) ==
  bars_loops_horizontal(
    plot_get_clip(p, l),
    scale_translatev(config.scale_x, config.x),
    scale_translatev(config.scale_x, config.xoffset),
    scale_translatev(config.scale_y, config.y),
    clamp(scale_translate(config.scale_x, R(0)), R(0), R(1)),
    l, config, fail, g)

\* a vertical bar that extends by the whole thickness to each side
bars_path_vertical_full(sx, sy1, sy2, offset, size) ==
  draw_path(<< <<"M", RSub(RAdd(sx, offset), size), sy1>>,
               <<"L", RSub(RAdd(sx, offset), size), sy2>>,
               <<"L", RAdd(RAdd(sx, offset), size), sy2>>,
               <<"L", RAdd(RAdd(sx, offset), size), sy1>>,
               <<"Z">> >>)
\* the Path of one vertical bar
bars_path_vertical(sx, sy1, sy2, offset, size) ==
  draw_path(<< <<"M", RSub(RAdd(sx, offset), RHalf(size)), sy1>>,
               <<"L", RSub(RAdd(sx, offset), RHalf(size)), sy2>>,
               <<"L", RAdd(RAdd(sx, offset), RHalf(size)), sy2>>,
               <<"L", RAdd(RAdd(sx, offset), RHalf(size)), sy1>>,
               <<"Z">> >>)

\* bars_draw_vertical, "draw bars", bar i
bars_bar_vertical(c, xs, ys, yoffsets, y0, l, config, i, g, size, offset) ==
  bars_step("bar", i, size, offset,
    {Rd("xs", xs, i), Rd("ys", ys, i)}
      \cup (IF yoffsets = <<>> THEN {} ELSE {Rd("yoffsets", yoffsets, i)})
      \cup bars_override_reads(config, i, TRUE),
    bars_path_vertical(
      RAdd(c.x, RMul(At(xs, i, g), c.w)),
      RAdd(c.y, RMul(IF yoffsets = <<>> THEN y0 ELSE At(yoffsets, i, g), c.h)),
      RAdd(c.y, RMul(At(ys, i, g), c.h)),
      offset, size))

\* bars_draw_vertical, "draw labels", label i
bars_label_vertical(c, xs, ys, config, i, g, offset) ==
  bars_step("label", i, R(0), offset,
    {Rd("labels", config.labels, i), Rd("xs", xs, i), Rd("ys", ys, i)}
      \cup bars_override_reads(config, i, FALSE),
    draw_text(config.labels[i + 1],
      <<RAdd(RAdd(c.x, offset), RMul(At(xs, i, g), c.w)),
        RAdd(RAdd(c.y, RMul(At(ys, i, g), c.h)), bars_label_padding(config))>>,
      "CENTER", "BOTTOM"))

bars_loops_vertical(c, xs, ys, yoffsets, y0, l, config, fail, g) ==
  bars_drawn("vertical", c, config, Len(xs), fail,
    bars_run([k \in 1..(Len(xs) + Len(config.labels)) |->
                IF k <= Len(xs)
                THEN bars_bar_vertical(c, xs, ys, yoffsets, y0, l, config,
                       k - 1, g, bars_size(config, l, k - 1, g),
                       bars_offset(config, k - 1, g))
                ELSE bars_label_vertical(c, xs, ys, config,
                       k - Len(xs) - 1, g,
                       bars_offset(config, k - Len(xs) - 1, g))],
             fail, g))

bars_draw_vertical(p, l, config, fail, g) ==
  bars_loops_vertical(
    plot_get_clip(p, l),
    scale_translatev(config.scale_x, config.x),
    scale_translatev(config.scale_y, config.y),
    scale_translatev(config.scale_y, config.yoffset),
    clamp(scale_translate(config.scale_y, R(0)), R(0), R(1)),
    l, config, fail, g)

\* bars_draw, after bars_configure returned r
bars_draw_configured(p, l, r, fail, g) ==
  IF r.rc # "OK"
  THEN [rc |-> r.rc, cmds |-> <<>>, clip |-> None, trace |-> None]
  ELSE IF r.conf.direction = "horizontal"
  THEN bars_draw_horizontal(p, l, r.conf, fail, g)
  ELSE bars_draw_vertical(p, l, r.conf, fail, g)

bars_draw_result(p, d) ==
  [rc |-> d.rc, plot |-> p, cmds |-> d.cmds,
   clip |-> IF d.clip = None THEN None ELSE Some(d.clip),
   trace |-> IF d.trace = None THEN None ELSE Some(d.trace)]

\* a bars_draw that pushes a layout and does not pop it
bars_draw_pushing(p, l, val, fail, g) ==
  bars_draw_result(
    [p EXCEPT !.layout_stack = Append(p.layout_stack, plot_get_clip(p, l))],
    bars_draw_configured(p, l, bars_configure(p, l, val), fail, g))
\* bars_draw: configure, then the draw of the configured direction
bars_draw(p, l, val, fail, g) ==
  bars_draw_result(p,
    bars_draw_configured(p, l, bars_configure(p, l, val), fail, g))

(***************************************************************************)
(* The other handlers of the plot.  Only plot_set_background is among the  *)
(* sources; the other geometry kinds and the axes, grid and legend are     *)
(* modelled from the specification: an autorange fits the plot's scales    *)
(* and never draws, a draw reads the PlotConfig and emits a path.          *)
(***************************************************************************)
GeomKeys == {"areas", "bars", "errorbars", "labels", "lines", "points",
             "polygons", "rectangles", "vectors"}
MarginKeys == {"margin", "margin-top", "margin-right", "margin-bottom",
               "margin-left"}
DecorKeys == {"axes", "axis", "grid", "background", "legend"}

\* path_add_rectangle(&p, rect)
path_add_rectangle(r) ==
  << <<"M", r.x, r.y>>, <<"L", RAdd(r.x, r.w), r.y>>,
     <<"L", RAdd(r.x, r.w), RAdd(r.y, r.h)>>, <<"L", r.x, RAdd(r.y, r.h)>>,
     <<"Z">> >>

plot_set_background(p, l, val) ==
  LET rect == plot_get_clip(p, l)
  IN  IF ~val.ok
      THEN [rc |-> "ERROR", cmds |-> <<>>, clip |-> Some(rect)]
      ELSE [rc |-> "OK", cmds |-> <<draw_path(path_add_rectangle(rect))>>,
            clip |-> Some(rect)]

\* plot_axes, plot_axis, plot_grid, plot_legend
decor_draw(p, l, val) ==
  LET rect == plot_get_clip(p, l)
  IN  [rc |-> "OK", cmds |-> <<draw_path(path_add_rectangle(rect))>>,
       clip |-> Some(rect)]

\* areas_autorange, lines_autorange, ...: the scales fitted to the data
geom_autorange(p, l, val) ==
  [rc |-> "OK",
   plot |-> [p EXCEPT !.scale_x = scale_fit(p.scale_x, val.x),
                      !.scale_y = scale_fit(p.scale_y, val.y)],
   cmds |-> <<>>]

\* areas_draw, lines_draw, ...: one path through the translated points
geom_draw(p, l, val) ==
  LET c == plot_get_clip(p, l)
      xs == scale_translatev(p.scale_x, val.x)
      ys == scale_translatev(p.scale_y, val.y)
  IN  [rc |-> "OK",
       cmds |-> <<draw_path([i \in 1..Len(xs) |->
                    <<IF i = 1 THEN "M" ELSE "L",
                      RAdd(c.x, RMul(xs[i], c.w)),
                      RAdd(c.y, RMul(ys[i], c.h))>>])>>,
       clip |-> Some(c)]

\* measure_read bound to the margins a margin key names
margin_read(p, key, val) ==
  LET which == CASE key = "margin" -> {1, 2, 3, 4}
                 [] key = "margin-top" -> {1}
                 [] key = "margin-right" -> {2}
                 [] key = "margin-bottom" -> {3}
                 [] key = "margin-left" -> {4}
  IN  [p EXCEPT !.margins = [i \in 1..4 |->
                               IF i \in which THEN val.m ELSE p.margins[i]]]

(***************************************************************************)
(* plot_eval: plot_prepare, then plot_draw.  Each is one expr_walk_map     *)
(* over the plot expression with its own table of handlers; the walker     *)
(* (not among the sources) visits the keys of the expression in their      *)
(* order, calls the handler the table has for the key, skips a key the     *)
(* table lacks (the walk is not strict) and returns the first error.       *)
(***************************************************************************)
\* a plot_prepare whose table lacks the bars handler
plot_prepare_keys_no_bars == ScaleKeys \cup (GeomKeys \ {"bars"})
\* a plot_prepare whose table lacks the limit-y handler
plot_prepare_keys_no_limit_y == (ScaleKeys \ {"limit-y"}) \cup GeomKeys
\* the keys of plot_prepare's table
plot_prepare_keys == ScaleKeys \cup GeomKeys

\* a plot_draw whose table lacks the axes handler
plot_draw_keys_no_axes == MarginKeys \cup (DecorKeys \ {"axes"}) \cup GeomKeys
\* the keys of plot_draw's table
plot_draw_keys == MarginKeys \cup DecorKeys \cup GeomKeys

Call(fn, r) == [fn |-> fn, pos |-> pos, key |-> expr[pos].key,
                rc |-> r.rc, emitted |-> Len(r.cmds)]

\* the walker after a handler returned r: on to the next key, or out with
\* the error, which plot_eval returns
Walked(fn, r) ==
  /\ calls' = Append(calls, Call(fn, r))
  /\ out' = out \o r.cmds
  /\ IF r.rc = "OK"
     THEN pos' = pos + 1 /\ UNCHANGED <<phase, rc>>
     ELSE phase' = "failed" /\ rc' = r.rc /\ UNCHANGED pos
  /\ UNCHANGED <<expr, layer, prepared>>

\* an autorange handler returned r
Prepared(fn, r) == plot' = r.plot /\ Walked(fn, r)
\* a draw handler that only reads the PlotConfig returned r
Drawn(fn, r) == clip' = r.clip /\ Walked(fn, r)
\* bars_draw returned r
DrawnBars(r) ==
  plot' = r.plot /\ clip' = r.clip /\ trace' = r.trace /\ Walked("bars_draw", r)

Skipped ==
  /\ pos' = pos + 1
  /\ UNCHANGED <<expr, layer, phase, plot, out, rc, calls, prepared, clip, trace>>

AtKey(ph, table) ==
  /\ phase = ph
  /\ pos <= Len(expr)
  /\ expr[pos].key \in table

\* the undefined outcomes of a read past the end of a vector
Garbage == {[crash |-> TRUE, value |-> R(0)],
            [crash |-> FALSE, value |-> R(0)],
            [crash |-> FALSE, value |-> R(7)]}

PrepareScale ==
  /\ AtKey("prepare", plot_prepare_keys \cap ScaleKeys)
  /\ plot' = scale_keys_bind(plot, expr[pos])
  /\ Walked("scale_config", [rc |-> "OK", cmds |-> <<>>])
  /\ UNCHANGED <<clip, trace>>

PrepareBars ==
  /\ AtKey("prepare", plot_prepare_keys \cap {"bars"})
  /\ Prepared("bars_autorange", bars_autorange(plot, layer, expr[pos].val))
  /\ UNCHANGED <<clip, trace>>

PrepareGeom ==
  /\ AtKey("prepare", plot_prepare_keys \cap (GeomKeys \ {"bars"}))
  /\ Prepared("geom_autorange", geom_autorange(plot, layer, expr[pos].val))
  /\ UNCHANGED <<clip, trace>>

PrepareSkip ==
  /\ phase = "prepare" /\ pos <= Len(expr)
  /\ expr[pos].key \notin plot_prepare_keys
  /\ Skipped

\* plot_prepare returned OK: plot_eval goes on to plot_draw
PrepareDone ==
  /\ phase = "prepare" /\ pos > Len(expr)
  /\ phase' = "draw" /\ pos' = 1
  /\ prepared' = Some(plot)
  /\ UNCHANGED <<expr, layer, plot, out, rc, calls, clip, trace>>

DrawMargin ==
  /\ AtKey("draw", plot_draw_keys \cap MarginKeys)
  /\ plot' = margin_read(plot, expr[pos].key, expr[pos].val)
  /\ Walked("margin", [rc |-> "OK", cmds |-> <<>>])
  /\ UNCHANGED <<clip, trace>>

DrawDecor ==
  /\ AtKey("draw", plot_draw_keys \cap (DecorKeys \ {"background"}))
  /\ Drawn("decor_draw", decor_draw(plot, layer, expr[pos].val))
  /\ UNCHANGED <<plot, trace>>

DrawBackground ==
  /\ AtKey("draw", plot_draw_keys \cap {"background"})
  /\ Drawn("plot_set_background",
           plot_set_background(plot, layer, expr[pos].val))
  /\ UNCHANGED <<plot, trace>>

DrawBars ==
  /\ AtKey("draw", plot_draw_keys \cap {"bars"})
  /\ \E fail \in 0..Len(expr[pos].val.labels), g \in Garbage :
       DrawnBars(bars_draw(plot, layer, expr[pos].val, fail, g))

DrawGeom ==
  /\ AtKey("draw", plot_draw_keys \cap (GeomKeys \ {"bars"}))
  /\ Drawn("geom_draw", geom_draw(plot, layer, expr[pos].val))
  /\ UNCHANGED <<plot, trace>>

DrawSkip ==
  /\ phase = "draw" /\ pos <= Len(expr)
  /\ expr[pos].key \notin plot_draw_keys
  /\ Skipped

\* plot_draw returned OK: plot_eval returns OK
DrawDone ==
  /\ phase = "draw" /\ pos > Len(expr)
  /\ phase' = "done" /\ rc' = "OK"
  /\ UNCHANGED <<expr, layer, pos, plot, out, calls, prepared, clip, trace>>

(***************************************************************************)
(* Spec: plot_eval over every plot expression of at most MaxKeys keys      *)
(* drawn from PlotEntries.                                                 *)
(***************************************************************************)
Buf(s) == [i \in 1..Len(s) |-> R(s[i])]

BarsVal(direction, x, y, xoffset, yoffset, labels) ==
  [direction |-> direction, x |-> x, y |-> y,
   xoffset |-> xoffset, yoffset |-> yoffset,
   width |-> MeasureZero, widths |-> <<>>,
   offset |-> MeasureZero, offsets |-> <<>>,
   labels |-> labels, label_padding |-> MeasureZero, scale |-> <<>>]

PlotEntries ==
  { [key |-> "limit-y", val |-> [lo |-> R(0), hi |-> R(4)]],
    [key |-> "scale-x-padding", val |-> [v |-> R(1)]],
    [key |-> "margin-left", val |-> [m |-> Measure("px", R(20))]],
    [key |-> "axes", val |-> [ok |-> TRUE]],
    [key |-> "background", val |-> [ok |-> TRUE]],
    [key |-> "lines", val |-> [x |-> Buf(<<0, 5>>), y |-> Buf(<<-2, 2>>)]],
    \* two points, one label
    [key |-> "bars",
     val |-> BarsVal("vertical", Buf(<<0, 1>>), Buf(<<1, 3>>), <<>>, <<>>, <<"a">>)],
    \* data-x of two values, data-y of one
    [key |-> "bars",
     val |-> BarsVal("vertical", Buf(<<0, 1>>), Buf(<<1>>), <<>>, <<>>, <<>>)],
    \* two points, data-y-low of one value
    [key |-> "bars",
     val |-> BarsVal("vertical", Buf(<<0, 1>>), Buf(<<1, 3>>), <<>>, Buf(<<0>>),
                     <<>>)],
    \* one point with data-x-low, two labels, and a limit-x-max of its own
    [key |-> "bars",
     val |-> [BarsVal("horizontal", Buf(<<6>>), Buf(<<1>>), Buf(<<2>>), <<>>,
                      <<"p", "q">>)
                EXCEPT !.scale = <<[key |-> "limit-x-max", val |-> [v |-> R(8)]]>>]] }

PlotExprs == UNION {[1..n -> PlotEntries] : n \in 0..MaxKeys}

PlotLayer ==
  [dpi |-> 96, rem |-> R(12), font_size |-> R(10),
   width |-> R(200), height |-> R(100)]

Start ==
  /\ phase = "prepare" /\ pos = 1
  /\ plot = PlotConfigInit
  /\ out = <<>> /\ rc = "NONE" /\ calls = <<>>
  /\ prepared = None /\ clip = None /\ trace = None

Init ==
  /\ expr \in PlotExprs
  /\ layer = PlotLayer
  /\ Start

Next ==
  \/ PrepareScale \/ PrepareBars \/ PrepareGeom \/ PrepareSkip \/ PrepareDone
  \/ DrawMargin \/ DrawDecor \/ DrawBackground \/ DrawBars \/ DrawGeom
  \/ DrawSkip \/ DrawDone

Spec == Init /\ [][Next]_vars

(***************************************************************************)
(* SpecBars: plot_eval over a plot of one bars element, for every element  *)
(* of BarsVals.                                                            *)
(***************************************************************************)
XData(n) == [i \in 1..n |-> R(i - 1)]
YData(n) == [i \in 1..n |-> R(((3 * i) % 7) + 2)]
LowData(n) == [i \in 1..n |-> R(i % 2)]
LabelData(n) == SubSeq(<<"t0", "t1", "t2", "t3", "t4", "t5">>, 1, n)

BarsVals ==
  [direction : {"horizontal", "vertical"},
   x : {XData(n) : n \in 0..MaxData},
   y : {YData(n) : n \in 0..MaxData},
   xoffset : {LowData(n) : n \in {0, MaxData}},
   yoffset : {LowData(n) : n \in {0, MaxData}},
   width : {MeasureZero, Measure("px", R(10))},
   widths : {<<>>, <<R(4)>>, <<R(4), R(6)>>},
   offset : {MeasureZero, Measure("px", R(2))},
   offsets : {<<>>, <<R(3)>>, <<R(3), R(5)>>},
   labels : {LabelData(n) : n \in {0, 1, MaxData + 1}},
   label_padding : {MeasureZero},
   scale : {<<>>}]

BarsLayers ==
  {[dpi |-> d, rem |-> R(12), font_size |-> R(10),
    width |-> R(200), height |-> R(100)] : d \in {72, 144}}

InitBars ==
  /\ expr \in {<<[key |-> "bars", val |-> v]>> : v \in BarsVals}
  /\ layer \in BarsLayers
  /\ Start

NextBars == PrepareBars \/ PrepareDone \/ DrawBars \/ DrawDone

SpecBars == InitBars /\ [][NextBars]_vars

(***************************************************************************)
(* SpecClip: plot_get_clip on every PlotConfig of ClipPlots.               *)
(***************************************************************************)
ClipMargins == {MeasureZero, Measure("px", R(10)), Measure("pt", R(9)),
                Measure("rem", R(2))}
ClipRects == {Rectangle(R(5), R(5), R(50), R(40)),
              Rectangle(R(0), R(20), R(30), R(30))}
ClipStacks == UNION {[1..n -> ClipRects] : n \in 0..MaxStack}

ClipPlots ==
  {[PlotConfigInit EXCEPT !.margins = m, !.layout_stack = st] :
     m \in [1..4 -> ClipMargins], st \in ClipStacks}

InitClip ==
  /\ expr = <<>>
  /\ layer \in BarsLayers
  /\ phase = "clip" /\ pos = 1
  /\ plot \in ClipPlots
  /\ out = <<>> /\ rc = "NONE" /\ calls = <<>>
  /\ prepared = Some(plot) /\ clip = None /\ trace = None

GetClip ==
  /\ phase = "clip"
  /\ clip' = Some(plot_get_clip(plot, layer))
  /\ phase' = "done"
  /\ UNCHANGED <<expr, layer, pos, plot, out, rc, calls, prepared, trace>>

NextClip == GetClip

SpecClip == InitClip /\ [][NextClip]_vars

(***************************************************************************)
(* Properties of plot_eval (Spec)                                          *)
(***************************************************************************)
AutorangeFns == {"bars_autorange", "geom_autorange"}
GeomDrawFns == {"bars_draw", "geom_draw"}
DecorDrawFns == {"decor_draw", "plot_set_background"}
DrawFns == GeomDrawFns \cup DecorDrawFns
PrepareFns == AutorangeFns \cup {"scale_config"}

CallsOf(fns) == {k \in 1..Len(calls) : calls[k].fn \in fns}
GeomAt == {i \in 1..Len(expr) : expr[i].key \in GeomKeys}
DecorAt == {i \in 1..Len(expr) : expr[i].key \in DecorKeys}
ScaleAt == {i \in 1..Len(expr) : expr[i].key \in ScaleKeys}

\* C1: no autorange call emits a drawing command, and when the first drawing
\* command is emitted the autorange of every geometry element of the
\* expression has run and returned OK.
C1_AutorangeBeforeDrawing ==
  /\ \A k \in CallsOf(AutorangeFns) : calls[k].emitted = 0
  /\ \A k \in 1..Len(calls) :
       calls[k].emitted > 0 =>
         \A i \in GeomAt :
           \E j \in CallsOf(AutorangeFns) :
             j < k /\ calls[j].pos = i /\ calls[j].rc = "OK"
  /\ out # <<>> => \E k \in 1..Len(calls) : calls[k].emitted > 0

\* a bars element is drawn before a lines element that follows it
C1_Witness ==
  /\ phase = "done" /\ Len(expr) = 2
  /\ expr[1].key = "bars" /\ expr[2].key = "lines"
  /\ Len(out) >= 3
  /\ calls[3].fn = "bars_draw" /\ calls[3].emitted > 0

\* C2 as stated: every axes/axis/grid/legend/background draw handler runs
\* before every geometry draw handler, whatever the order of the keys.
C2_DecorBeforeGeometry ==
  \A j \in CallsOf(DecorDrawFns), k \in CallsOf(GeomDrawFns) : j < k

\* C2, amended: plot_draw runs the draw handlers in the order of the keys
\* of the expression, each at its own key: an axes/axis/grid/legend/
\* background handler runs before the geometry handlers that follow its key
\* and after those that precede it; a plot_draw that returns OK has run the
\* handler of every such key.
C2_DrawInExpressionOrder ==
  /\ \A j, k \in CallsOf(DrawFns) : j < k => calls[j].pos < calls[k].pos
  /\ \A k \in CallsOf(DecorDrawFns) : calls[k].pos \in DecorAt
  /\ \A k \in CallsOf(GeomDrawFns) : calls[k].pos \in GeomAt
  /\ \A j \in CallsOf(DecorDrawFns), k \in CallsOf(GeomDrawFns) :
       j < k <=> calls[j].pos < calls[k].pos
  /\ phase = "done" =>
       /\ \A i \in DecorAt : \E k \in CallsOf(DecorDrawFns) : calls[k].pos = i
       /\ \A i \in GeomAt : \E k \in CallsOf(GeomDrawFns) : calls[k].pos = i

\* the axes are drawn after the bars whose key precedes theirs
C2_Witness ==
  /\ phase = "done"
  /\ \E j \in CallsOf({"decor_draw"}), k \in CallsOf({"bars_draw"}) :
       k < j /\ calls[k].emitted > 0 /\ calls[j].emitted > 0

\* C3 as stated: every plot-level scale key is applied before the first
\* autorange, whatever the order of the keys.
C3_ScaleKeysBeforeAutorange ==
  \A j \in CallsOf({"scale_config"}), k \in CallsOf(AutorangeFns) : j < k

\* C3, amended: plot_prepare applies the scale keys and runs the autoranges
\* in one pass, in the order of the keys of the expression: a scale key is
\* applied before the autorange of the geometry elements that follow it and
\* after the autorange of those that precede it; the autorange runs at most
\* once per geometry element, in expression order, and a plot_prepare that
\* returns OK has applied every scale key and run every autorange.
C3_PrepareInExpressionOrder ==
  /\ \A j, k \in CallsOf(PrepareFns) : j < k => calls[j].pos < calls[k].pos
  /\ \A k \in CallsOf({"scale_config"}) : calls[k].pos \in ScaleAt
  /\ \A k \in CallsOf(AutorangeFns) : calls[k].pos \in GeomAt
  /\ \A j \in CallsOf({"scale_config"}), k \in CallsOf(AutorangeFns) :
       j < k <=> calls[j].pos < calls[k].pos
  /\ prepared # None =>
       /\ \A i \in ScaleAt : \E k \in CallsOf({"scale_config"}) : calls[k].pos = i
       /\ \A i \in GeomAt : \E k \in CallsOf(AutorangeFns) : calls[k].pos = i
       /\ \A k \in CallsOf(PrepareFns) : calls[k].rc = "OK"

\* limit-y is applied after the autorange of the bars that precede it, and
\* the y scale holds both the limit and the observed domain
C3_Witness ==
  /\ prepared # None
  /\ \E j \in CallsOf({"scale_config"}), k \in CallsOf({"bars_autorange"}) :
       k < j /\ calls[j].key = "limit-y"
  /\ plot.scale_y.min = Some(R(0)) /\ plot.scale_y.max_auto = Some(R(3))

MalformedBars(v) ==
  \/ Len(v.x) # Len(v.y)
  \/ v.xoffset # <<>> /\ Len(v.xoffset) # Len(v.x)
  \/ v.yoffset # <<>> /\ Len(v.yoffset) # Len(v.y)

MalformedAt ==
  {i \in 1..Len(expr) : expr[i].key = "bars" /\ MalformedBars(expr[i].val)}

\* C4: when a bars element of the expression has data-x and data-y of
\* different lengths, or a non-empty low buffer whose length differs from
\* its primary buffer's, plot_eval never emits a path or a text, plot_prepare
\* cannot return OK, and plot_eval returns an error.
C4_MalformedBarsNothingDrawn ==
  MalformedAt # {} =>
    /\ out = <<>>
    /\ phase \in {"prepare", "failed"}
    /\ phase = "prepare" => pos <= Min(MalformedAt)
    /\ phase = "failed" => rc = "ERROR"

\* plot_eval failed at a malformed bars element that follows a valid one
C4_Witness ==
  /\ phase = "failed" /\ rc = "ERROR" /\ out = <<>>
  /\ pos = 3 /\ MalformedAt = {3}
  /\ expr[1].key = "bars" /\ expr[2].key = "axes"
  /\ expr[3].val.yoffset # <<>>

\* C5 as stated: the PlotConfig is never modified during the draw phase.
C5_PlotConfigReadOnlyInDraw ==
  prepared # None => plot = prepared[1]

\* C5, amended: during the draw phase the two scale configs and the layout
\* stack keep the values plot_prepare left, and the margins change only when
\* plot_draw handles a margin key: the margin keys are handled by plot_draw,
\* in expression order, not by plot_prepare.
C5_ScalesReadOnlyInDraw ==
  /\ prepared = None => plot.margins = PlotConfigInit.margins
  /\ prepared # None =>
       /\ plot.scale_x = prepared[1].scale_x
       /\ plot.scale_y = prepared[1].scale_y
       /\ plot.layout_stack = prepared[1].layout_stack
       /\ CallsOf({"margin"}) = {} => plot.margins = prepared[1].margins
       /\ \A i \in 1..4 :
            plot.margins[i] # prepared[1].margins[i] =>
              \E k \in CallsOf({"margin"}) :
                plot.margins[i] = expr[calls[k].pos].val.m

\* a bars element was drawn and a margin key changed the margins
C5_Witness ==
  /\ phase = "done"
  /\ \E k \in CallsOf({"bars_draw"}) : calls[k].emitted > 0
  /\ plot.margins # prepared[1].margins
  /\ plot.scale_y.max_auto # None

(***************************************************************************)
(* Properties of plot_get_clip (SpecClip)                                  *)
(***************************************************************************)
ResolvedMargin(i) ==
  IF plot.margins[i].unit = "pt"
  THEN RDiv(RMul(plot.margins[i].value, R(layer.dpi)), R(72))
  ELSE IF plot.margins[i].unit = "rem"
  THEN RMul(plot.margins[i].value, layer.rem)
  ELSE plot.margins[i].value

\* C6: with an empty layout stack plot_get_clip returns the layer rectangle
\* (0, 0, width, height) inset by the resolved top, right, bottom and left
\* margins; otherwise it returns the last pushed rectangle, no margin
\* applied; the PlotConfig is as it was before the call.
C6_ClipRectangle ==
  clip # None =>
    /\ plot.layout_stack = <<>> =>
         clip[1] = [x |-> ResolvedMargin(4),
                    y |-> ResolvedMargin(1),
                    w |-> RSub(RSub(layer.width, ResolvedMargin(4)),
                               ResolvedMargin(2)),
                    h |-> RSub(RSub(layer.height, ResolvedMargin(1)),
                               ResolvedMargin(3))]
    /\ plot.layout_stack # <<>> =>
         clip[1] = plot.layout_stack[Len(plot.layout_stack)]
    /\ plot = prepared[1]

\* the clip of a plot with margins and two different pushed layouts
C6_Witness ==
  /\ clip # None
  /\ Len(plot.layout_stack) = 2
  /\ plot.layout_stack[1] # plot.layout_stack[2]
  /\ \A i \in 1..4 : plot.margins[i].value # R(0)
  /\ clip[1] = plot.layout_stack[2]

(***************************************************************************)
(* Properties of the bars draw (SpecBars)                                  *)
(***************************************************************************)
BarsIn == expr[1].val
StepsOf(kind) ==
  {k \in 1..Len(trace[1].steps) : trace[1].steps[k].kind = kind}
BarDrawn(i) == \E k \in StepsOf("bar") : trace[1].steps[k].i = i

\* the distance between the two long sides of the path of a bar
PathThickness(ops) ==
  IF trace[1].direction = "vertical"
  THEN RSub(ops[3][2], ops[1][2])
  ELSE RSub(ops[3][3], ops[1][3])

\* C7: the thickness of bar i is widths[i mod len(widths)] when the widths
\* buffer is not empty, even when a width is configured too; else the
\* configured width when it is not zero; else 10pt in pixels at the layer's
\* DPI.  Every data index gets a bar, and the path of the bar is that thick.
C7_BarThickness ==
  trace # None =>
    /\ \A i \in 0..(Len(BarsIn.x) - 1) : BarDrawn(i)
    /\ \A k \in StepsOf("bar") :
         LET st == trace[1].steps[k]
         IN  /\ st.size =
                  IF BarsIn.widths # <<>>
                  THEN BarsIn.widths[(st.i % Len(BarsIn.widths)) + 1]
                  ELSE IF BarsIn.width.value # R(0)
                  THEN BarsIn.width.value
                  ELSE RDiv(R(10 * layer.dpi), R(72))
             /\ IsFinite(PathThickness(st.cmd.path)) =>
                  PathThickness(st.cmd.path) = st.size

\* the third bar of an element with two widths and a width: widths[2 mod 2]
C7_Witness ==
  /\ trace # None
  /\ Len(BarsIn.widths) = 2 /\ BarsIn.width.value # R(0)
  /\ \E k \in StepsOf("bar") :
       /\ trace[1].steps[k].i = 2
       /\ trace[1].steps[k].size = BarsIn.widths[1]
       /\ PathThickness(trace[1].steps[k].cmd.path) = BarsIn.widths[1]

\* C8: with an offsets buffer of length m >= 1 the offset of bar i and of
\* label i is offsets[i mod m]; with an empty offsets buffer it is the
\* single configured offset; every data index gets a bar.
C8_OffsetCyclic ==
  trace # None =>
    /\ \A i \in 0..(Len(BarsIn.x) - 1) : BarDrawn(i)
    /\ \A k \in 1..Len(trace[1].steps) :
         trace[1].steps[k].offset =
           IF BarsIn.offsets # <<>>
           THEN BarsIn.offsets[(trace[1].steps[k].i % Len(BarsIn.offsets)) + 1]
           ELSE BarsIn.offset.value

\* the third bar and the third label of an element with two offsets
C8_Witness ==
  /\ trace # None
  /\ Len(BarsIn.offsets) = 2 /\ BarsIn.offset.value # R(0)
  /\ \E k \in StepsOf("bar") :
       trace[1].steps[k].i = 2 /\ trace[1].steps[k].offset = BarsIn.offsets[1]
  /\ \E k \in StepsOf("label") :
       trace[1].steps[k].i = 2 /\ trace[1].steps[k].offset = BarsIn.offsets[1]

\* C9: a bars draw of a configuration that bars_configure accepted reads no
\* buffer at an index greater than or equal to the buffer's length.
C9_NoOutOfRangeRead ==
  trace # None =>
    \A k \in 1..Len(trace[1].steps) :
      \A rd \in trace[1].steps[k].reads : ~OutOfRange(rd)

IsDrawPath(o) == o.cmd = "draw_path"
OpKinds(ops) == [j \in 1..Len(ops) |-> ops[j][1]]

ExtentIsY == trace[1].direction = "vertical"
ExtentScale == IF ExtentIsY THEN trace[1].conf.scale_y ELSE trace[1].conf.scale_x
ExtentLow == IF ExtentIsY THEN BarsIn.yoffset ELSE BarsIn.xoffset
ClipOrigin == IF ExtentIsY THEN clip[1].y ELSE clip[1].x
ClipExtent == IF ExtentIsY THEN clip[1].h ELSE clip[1].w
\* the baseline edge of a bar: the extent coordinate of its first and last
\* points
BaselineOf(ops) == IF ExtentIsY THEN ops[1][3] ELSE ops[1][2]
ZeroLine ==
  LET t == scale_translate(ExtentScale, R(0))
  IN  IF RLt(t, R(0)) THEN R(0) ELSE IF RLt(R(1), t) THEN R(1) ELSE t
InsideClip(b) == RLe(ClipOrigin, b) /\ RLe(b, RAdd(ClipOrigin, ClipExtent))

\* C11, the anchor alone: without a low buffer for the extent axis the
\* baseline of every bar is clip origin + clamp(translate(scale, 0), 0, 1) *
\* clip extent; with one, the baseline of bar i is clip origin +
\* translate(scale, low[i]) * clip extent.
C11_BaselineAnchor ==
  trace # None =>
    \A k \in StepsOf("bar") :
      LET st == trace[1].steps[k]
          ops == st.cmd.path
      IN  /\ BaselineOf(ops) =
               IF ExtentLow = <<>>
               THEN RAdd(ClipOrigin, RMul(ZeroLine, ClipExtent))
               ELSE RAdd(ClipOrigin,
                         RMul(scale_translate(ExtentScale, ExtentLow[st.i + 1]),
                              ClipExtent))
          /\ (IF ExtentIsY THEN ops[4][3] ELSE ops[4][2]) = BaselineOf(ops)

IsDrawText(o) == o.cmd = "draw_text"
TextsOf(cmds) ==
  LET ts == SelectSeq(cmds, IsDrawText) IN [j \in 1..Len(ts) |-> ts[j].text]
BarsRc == calls[Len(calls)].rc

\* C12: when draw_text reports an error for label k (counted from 0), the
\* bars draw returns that error, plot_eval fails with it, and the texts
\* emitted are those of the labels 0..k-1, none for k or a later label; when
\* no draw_text fails, the draw returns OK and emits every bar path and then
\* the texts of all the labels, in label order.  (A draw that the
\* out-of-range read of C9 ended is in neither case.)
C12_LabelsFailFast ==
  (trace # None /\ BarsRc # "CRASH") =>
    LET k == trace[1].fail - 1
        n == Len(BarsIn.x)
    IN  /\ \A j \in 1..Len(out) : IsDrawPath(out[j]) <=> j <= n
        /\ Len(SelectSeq(out, IsDrawPath)) = n
        /\ trace[1].fail > 0 =>
             /\ BarsRc = "ERROR" /\ phase = "failed" /\ rc = "ERROR"
             /\ TextsOf(out) = SubSeq(BarsIn.labels, 1, k)
             /\ trace[1].steps[Len(trace[1].steps)].kind = "label"
             /\ trace[1].steps[Len(trace[1].steps)].i = k
        /\ trace[1].fail = 0 =>
             /\ BarsRc = "OK" /\ phase \in {"draw", "done"}
             /\ TextsOf(out) = BarsIn.labels

\* draw_text fails for the second of four labels: three paths and one text
C12_Witness ==
  /\ trace # None /\ BarsRc = "ERROR" /\ phase = "failed"
  /\ trace[1].fail = 2 /\ Len(BarsIn.labels) = 4 /\ Len(BarsIn.x) = 3
  /\ Len(out) = 4
  /\ TextsOf(out) = <<"t0">>

(***************************************************************************)
(* The scales a bars draw starts from (Spec)                               *)
(***************************************************************************)
Max(S) == CHOOSE m \in S : \A k \in S : k <= m
\* the element whose draw the trace records: that of the last bars_draw call
LastBarsDrawn == expr[calls[Max(CallsOf({"bars_draw"}))].pos].val

\* the buffers of the geometry element at key i that the autorange fits
FittedX(i) ==
  IF expr[i].key = "bars"
  THEN expr[i].val.x \o expr[i].val.xoffset ELSE expr[i].val.x
FittedY(i) ==
  IF expr[i].key = "bars"
  THEN expr[i].val.y \o expr[i].val.yoffset ELSE expr[i].val.y
Covers(s, buf) ==
  \A j \in 1..Len(buf) :
    /\ s.min_auto # None /\ RLe(s.min_auto[1], buf[j])
    /\ s.max_auto # None /\ RLe(buf[j], s.max_auto[1])

\* C13: the scales a bars draw starts from are the plot's scales as
\* plot_prepare left them, with the element's own scale keys, if it has any,
\* applied to the copy; those scales cover the data of every geometry
\* element of the expression, the later ones included.  So every bars
\* element without scale keys of its own draws with the same two scales.
C13_BarsDrawFromPreparedScales ==
  trace # None =>
    /\ prepared # None
    /\ LastBarsDrawn.scale = <<>> =>
         /\ trace[1].conf.scale_x = prepared[1].scale_x
         /\ trace[1].conf.scale_y = prepared[1].scale_y
    /\ LET own == scale_keys_walk([scale_x |-> prepared[1].scale_x,
                                   scale_y |-> prepared[1].scale_y],
                                  LastBarsDrawn.scale)
       IN  /\ trace[1].conf.scale_x = own.scale_x
           /\ trace[1].conf.scale_y = own.scale_y
    /\ \A i \in GeomAt :
         /\ Covers(prepared[1].scale_x, FittedX(i))
         /\ Covers(prepared[1].scale_y, FittedY(i))

\* the first of two bars elements has been drawn with an x scale that
\* reaches the 5 of the lines element that follows it
C13_Witness ==
  /\ phase = "draw" /\ pos = 2 /\ trace # None
  /\ Len(expr) = 3
  /\ expr[1].key = "bars" /\ expr[2].key = "lines" /\ expr[3].key = "bars"
  /\ expr[1].val.scale = <<>> /\ expr[3].val.scale = <<>>
  /\ trace[1].conf.x = Buf(<<0, 1>>)
  /\ trace[1].conf.scale_x.max_auto = Some(R(5))
  /\ trace[1].conf.scale_y.min_auto = Some(R(-2))

============================================================================
